---- MODULE Spec2Model ----
(***************************************************************************)
(* Model of the GDAX exchange adapter (src/js/gdax.js): the error          *)
(* classifier handleErrors, the request signer sign, the order normalizer  *)
(* parseOrder / parseOrderStatus, the response check of request and the    *)
(* operation layer (fetch*, createOrder, cancelOrder, deposit, withdraw).  *)
(*                                                                         *)
(* Strings are sequences of tokens: a message is a sequence of words, a    *)
(* request path a sequence of segments, a JSON body a sequence of          *)
(* punctuation, keys and values.  Concatenation is \o, indexOf is a        *)
(* search for a contiguous sub-sequence.                                   *)
(***************************************************************************)
EXTENDS Integers, Sequences, FiniteSets, TLC

VARIABLES
    heCode,     \* handleErrors: the HTTP status code passed in
    heBody,     \* handleErrors: the raw response body passed in
    heOut,      \* handleErrors: what the call did (Pending before the call)
    poOrder,    \* parseOrder: the upstream order payload passed in
    poResult,   \* parseOrder: the canonical Order returned (Pending before)
    ptTrade,    \* parseTrade: the upstream trade payload passed in
    ptMarket,   \* parseTrade: the market passed in (Undefined when none)
    ptResult,   \* parseTrade: the canonical Trade returned (Pending before)
    ptBack,     \* parseTrade: the Trade returned when the payload is parsed
                \* again with the returned side as its side (Pending before)
    sgIn,       \* sign: its arguments, the credentials and the clock
    sgOut,      \* sign: the descriptor returned or the error (Pending before)
    credentials,    \* the credentials that are set (apiKey, secret, password)
    clock,          \* the nonce source
    pc,             \* where the current operation is: idle, awaiting, done
    call,           \* the operation called, its arguments and its locals
    sent,           \* the request handed to the transport, if any
    received,       \* what the transport delivered, if anything
    response,       \* what request returned to the operation, if anything
    outcome,        \* what the operation threw or returned (Pending before)
    transportCalls, \* transport invocations of the current operation
    nonceDraws      \* nonces drawn by the current operation

errVars == <<heCode, heBody, heOut>>
ordVars == <<poOrder, poResult>>
trdVars == <<ptTrade, ptMarket, ptResult, ptBack>>
sgnVars == <<sgIn, sgOut>>
opVars == <<credentials, clock, pc, call, sent, received, response, outcome,
            transportCalls, nonceDraws>>
vars == <<errVars, ordVars, trdVars, sgnVars, opVars>>

\* ------------------------------------------------------------------------
\* Bounds

\* longest message, in words
MaxMsgLen == 3

\* largest quantity in an order payload
MaxQty == 2

\* most parameters a caller passes in one call
MaxParams == 2

\* the nonce source is followed up to this value
MaxClock == 2

\* ------------------------------------------------------------------------
\* Values shared by the components

\* a call that has not been made yet
Pending == [type |-> "Pending"]

\* a call that returned without raising
NoError == [type |-> "None"]

\* JavaScript's undefined, and a defined value
Undefined == [def |-> FALSE]
Some(v) == [def |-> TRUE, val |-> v]

\* an object without members
EmptyObject == [k \in {} |-> 0]

\* sequences over S of length at most n
SeqUpTo(S, n) == UNION {[1..k -> S] : k \in 0..n}

\* ------------------------------------------------------------------------
\* Error classifier: handleErrors (code, reason, url, method, headers, body)

Words == {"price", "too", "small", "precise", "Insufficient", "funds",
          "Invalid", "API", "Key", "other"}

Messages == SeqUpTo(Words, MaxMsgLen)

PriceTooSmall == <<"price", "too", "small">>
PriceTooPrecise == <<"price", "too", "precise">>
InsufficientFundsMsg == <<"Insufficient", "funds">>
InvalidApiKeyMsg == <<"Invalid", "API", "Key">>

\* String.prototype.indexOf: the first 0-based position of needle in hay,
\* -1 when there is none
indexOf(hay, needle) ==
    LET hits == {i \in 0..(Len(hay) - Len(needle)) :
                    SubSeq(hay, i + 1, i + Len(needle)) = needle}
    IN IF hits = {} THEN -1
       ELSE CHOOSE i \in hits : \A j \in hits : i <= j

\* The values the `message` member of a parsed body can have: a string, a
\* JSON value that is not a string, or no such member at all.
MessageValues ==
    {[kind |-> "string", str |-> m] : m \in Messages}
        \cup {[kind |-> "number", str |-> <<>>],
              [kind |-> "null", str |-> <<>>],
              [kind |-> "absent", str |-> <<>>]}

\* Raw bodies.  first is what body[0] is compared with; json says what
\* JSON.parse makes of the text.
Bodies ==
    {[first |-> "{", json |-> "object", message |-> v] : v \in MessageValues}
        \cup {[first |-> "{", json |-> "invalid",
               message |-> [kind |-> "absent", str |-> <<>>]],
              [first |-> "[", json |-> "array",
               message |-> [kind |-> "absent", str |-> <<>>]],
              [first |-> "<", json |-> "invalid",
               message |-> [kind |-> "absent", str |-> <<>>]],
              [first |-> "", json |-> "invalid",
               message |-> [kind |-> "absent", str |-> <<>>]]}

StatusCodes == {200, 400, 401, 404, 500}

\* an error of the taxonomy, with the text it carries after the exchange id
Raise(type, kind, text) == [type |-> type, carries |-> kind, text |-> text]

\* a failure that is not of the taxonomy (a JavaScript TypeError or
\* SyntaxError escaping the classifier)
Untyped(type) == [type |-> type, carries |-> "none", text |-> <<>>]

TaxonomyErrors == {"InvalidOrder", "InsufficientFunds", "AuthenticationError",
                   "ExchangeError"}

handleErrorsNoPrecise(code, body) ==
    IF code = 400
    THEN IF body.first = "{"
         THEN IF body.json # "object"
              THEN Untyped("SyntaxError")
              ELSE LET message == body.message
                   IN IF message.kind # "string"
                      THEN Untyped("TypeError")
                      ELSE IF indexOf(message.str, PriceTooSmall) >= 0
                           THEN Raise("InvalidOrder", "message", message.str)
                      ELSE IF message.str = InsufficientFundsMsg
                           THEN Raise("InsufficientFunds", "message", message.str)
                      ELSE IF message.str = InvalidApiKeyMsg
                           THEN Raise("AuthenticationError", "message", message.str)
                      ELSE Raise("ExchangeError", "message", message.str)
         ELSE Raise("ExchangeError", "body", <<>>)
    ELSE NoError

handleErrors(code, body) ==
    IF code = 400
    THEN IF body.first = "{"
         THEN IF body.json # "object"
              THEN Untyped("SyntaxError")          \* JSON.parse throws
              ELSE LET message == body.message
                   IN IF message.kind # "string"
                      THEN Untyped("TypeError")    \* message.indexOf (...)
                      ELSE IF indexOf(message.str, PriceTooSmall) >= 0
                           THEN Raise("InvalidOrder", "message", message.str)
                      ELSE IF indexOf(message.str, PriceTooPrecise) >= 0
                           THEN Raise("InvalidOrder", "message", message.str)
                      ELSE IF message.str = InsufficientFundsMsg
                           THEN Raise("InsufficientFunds", "message", message.str)
                      ELSE IF message.str = InvalidApiKeyMsg
                           THEN Raise("AuthenticationError", "message", message.str)
                      ELSE Raise("ExchangeError", "message", message.str)
         ELSE Raise("ExchangeError", "body", <<>>)
    ELSE NoError

\* the body held while the classifier is not the component exercised
IdleBody ==
    [first |-> "", json |-> "invalid", message |-> [kind |-> "absent", str |-> <<>>]]

HandleErrors ==
    /\ heOut = Pending
    /\ heOut' = handleErrors(heCode, heBody)
    /\ UNCHANGED <<heCode, heBody>>
    /\ UNCHANGED <<ordVars, trdVars, sgnVars, opVars>>

\* ------------------------------------------------------------------------
\* Normalizer: parseOrderStatus (status), parseOrder (order, market)

\* safeString (object, key, default): the member when the object has it
safeString(object, key, default) ==
    IF key.def /\ key.val \in DOMAIN object THEN Some(object[key.val]) ELSE default

\* safeFloat (object, key): the member as a number when the object has it
safeFloat(object, key) ==
    IF key \in DOMAIN object THEN Some(object[key]) ELSE Undefined

\* order[key], undefined when the object has no such member
Member(object, key) ==
    IF key \in DOMAIN object THEN Some(object[key]) ELSE Undefined

statuses ==
    [pending |-> "open", active |-> "open", open |-> "open",
     done |-> "closed", canceled |-> "canceled"]

parseOrderStatusDefaultOpen(status) == safeString(statuses, status, Some("open"))

parseOrderStatus(status) == safeString(statuses, status, status)

parseOrderFundsFirst(order) ==
    LET status == parseOrderStatus(Member(order, "status"))
        funds == safeFloat(order, "funds")
        amount == IF funds.def THEN funds
                  ELSE IF safeFloat(order, "size").def THEN safeFloat(order, "size")
                  ELSE safeFloat(order, "specified_funds")
        filled == safeFloat(order, "filled_size")
        remaining == IF amount.def /\ filled.def
                     THEN Some(amount.val - filled.val) ELSE Undefined
    IN [info |-> order, status |-> status, amount |-> amount,
        filled |-> filled, remaining |-> remaining]

parseOrder(order) ==
    LET status == parseOrderStatus(Member(order, "status"))
        size == safeFloat(order, "size")
        funds == safeFloat(order, "funds")
        amount == IF size.def THEN size
                  ELSE IF funds.def THEN funds
                  ELSE safeFloat(order, "specified_funds")
        filled == safeFloat(order, "filled_size")
        remaining == IF amount.def /\ filled.def
                     THEN Some(amount.val - filled.val) ELSE Undefined
    IN [info |-> order, status |-> status, amount |-> amount,
        filled |-> filled, remaining |-> remaining]

\* the numeric members an order payload may carry
QtyKeys == {"size", "funds", "specified_funds", "filled_size", "remaining"}

UpstreamStatuses == {"pending", "active", "open", "done", "canceled",
                     "closed", "rejected", "settled"}

OrderPayloads ==
    {q @@ s : q \in UNION {[K -> 0..MaxQty] : K \in SUBSET QtyKeys},
              s \in {EmptyObject} \cup {[status |-> u] : u \in UpstreamStatuses}}

ParseOrder ==
    /\ poResult = Pending
    /\ poResult' = parseOrder(poOrder)
    /\ UNCHANGED poOrder
    /\ UNCHANGED <<errVars, trdVars, sgnVars, opVars>>

\* ------------------------------------------------------------------------
\* Request builder / signer: sign (path, api, method, params, headers, body)

\* urls.api
ApiUrl == "https://api.gdax.com"

\* requiredCredentials
requiredCredentials == {"apiKey", "secret", "password"}

\* the order in which the members of a parameter object are serialized
KeyOrder ==
    <<"id", "level", "granularity", "start", "end", "product_id", "status",
      "limit", "side", "size", "type", "price", "currency", "amount",
      "crypto_address", "payment_method_id", "coinbase_account_id">>

\* the {param} placeholders of the endpoint paths, and the key each names
PlaceholderKey == [seg \in {"{id}"} |-> "id"]

\* objects with at most n of the keys K, their values taken from V
ObjectsOver(K, V, n) ==
    UNION {[D -> V] : D \in {D \in SUBSET K : Cardinality(D) <= n}}

\* Object.keys (object), in serialization order
Keys(object) == SelectSeq(KeyOrder, LAMBDA k : k \in DOMAIN object)

\* extend (a, b): the members of a, then those of b over them (fetchMarkets
\* relies on it: extend (this.fees['trading'], { ..., 'taker': taker }) must
\* yield the market's own taker fee, not the default of fees.trading)
extend(a, b) == b @@ a

\* omit (object, keys)
omit(object, keys) == [k \in DOMAIN object \ keys |-> object[k]]

\* extractParams (path): the keys named by the placeholders of the path
extractParams(path) ==
    {PlaceholderKey[path[i]] : i \in {j \in 1..Len(path) : path[j] \in DOMAIN PlaceholderKey}}

\* implodeParams (path, params): each {key} replaced by params[key]; the
\* segments of the result are joined with "/"
RECURSIVE JoinSegments(_)
JoinSegments(segs) ==
    IF segs = <<>> THEN <<>>
    ELSE IF Len(segs) = 1 THEN segs
    ELSE <<Head(segs), "/">> \o JoinSegments(Tail(segs))

implodeParams(path, params) ==
    JoinSegments([i \in 1..Len(path) |->
        IF path[i] \in DOMAIN PlaceholderKey /\ PlaceholderKey[path[i]] \in DOMAIN params
        THEN params[PlaceholderKey[path[i]]]
        ELSE path[i]])

\* the members of an object as text: open, then key mid value for each
\* member with sep between members, then close
RECURSIVE Members(_, _, _, _)
Members(object, keys, mid, sep) ==
    IF keys = <<>> THEN <<>>
    ELSE <<Head(keys), mid, object[Head(keys)]>>
            \o (IF Len(keys) > 1 THEN <<sep>> ELSE <<>>)
            \o Members(object, Tail(keys), mid, sep)

\* urlencode (query): k=v&k=v
urlencode(query) == Members(query, Keys(query), "=", "&")

\* json (query): {k:v,k:v}
json(query) == <<"{">> \o Members(query, Keys(query), ":", ",") \o <<"}">>

\* checkRequiredCredentials (): every required credential is set
checkRequiredCredentials(keys) ==
    \A c \in requiredCredentials : c \in DOMAIN keys

\* hmac (what, secret, 'sha256', 'base64'): kept as the pair it is computed
\* from, so that the text that was signed can be read back
hmac(what, secret) == [signed |-> what, key |-> secret]

\* what sign returns: the descriptor, the number of nonces it drew, and the
\* error it threw (NoError when it returned)
Descriptor(url, method, body, headers, nonces) ==
    [threw |-> NoError, url |-> url, method |-> method, body |-> body,
     headers |-> headers, nonces |-> nonces]

SignThrew(error, nonces) == [threw |-> error, nonces |-> nonces]

MissingCredential ==
    Raise("AuthenticationError", "credentials", <<>>)

signNonceFirst(path, api, method, params, headers, body, keys, now) ==
    LET query == omit(params, extractParams(path))
        request == <<"/">> \o implodeParams(path, params)
                     \o (IF method = "GET" /\ DOMAIN query # {}
                         THEN <<"?">> \o urlencode(query) ELSE <<>>)
        url == <<ApiUrl>> \o request
    IN IF api = "private"
       THEN IF ~checkRequiredCredentials(keys)
            THEN SignThrew(MissingCredential, 1)
            ELSE LET nonce == ToString(now)
                     serialize == method # "GET" /\ DOMAIN query # {}
                     body2 == IF serialize THEN Some(json(query)) ELSE body
                     payload == IF serialize THEN json(query) ELSE <<>>
                     what == <<nonce, method>> \o request \o payload
                     signature == hmac(what, keys["secret"])
                 IN Descriptor(url, method, body2,
                        Some([key |-> keys["apiKey"],
                              sign |-> signature,
                              timestamp |-> nonce,
                              passphrase |-> keys["password"],
                              contentType |-> "application/json"]),
                        1)
       ELSE Descriptor(url, method, body, headers, 0)

sign(path, api, method, params, headers, body, keys, now) ==
    LET query == omit(params, extractParams(path))
        request == <<"/">> \o implodeParams(path, params)
                     \o (IF method = "GET" /\ DOMAIN query # {}
                         THEN <<"?">> \o urlencode(query) ELSE <<>>)
        url == <<ApiUrl>> \o request
    IN IF api = "private"
       THEN IF ~checkRequiredCredentials(keys)
            THEN SignThrew(MissingCredential, 0)
            ELSE LET nonce == ToString(now)
                     serialize == method # "GET" /\ DOMAIN query # {}
                     body2 == IF serialize THEN Some(json(query)) ELSE body
                     payload == IF serialize THEN json(query) ELSE <<>>
                     what == <<nonce, method>> \o request \o payload
                     signature == hmac(what, keys["secret"])
                 IN Descriptor(url, method, body2,
                        Some([key |-> keys["apiKey"],
                              sign |-> signature,
                              timestamp |-> nonce,
                              passphrase |-> keys["password"],
                              contentType |-> "application/json"]),
                        1)
       ELSE Descriptor(url, method, body, headers, 0)

\* the paths, methods and parameters sign is applied to on its own
SignPaths ==
    {<<"orders">>, <<"orders", "{id}">>, <<"products", "{id}", "book">>,
     <<"withdrawals", "crypto">>}

Methods == {"GET", "POST", "DELETE"}

SignParams == ObjectsOver({"id", "level", "size"}, {"v1", "v2"}, MaxParams)

CallerBodies == {Undefined, Some(<<>>), Some(<<"raw">>)}

CredentialSets ==
    {[c \in D |-> c] : D \in SUBSET requiredCredentials}

\* the arguments held while the signer is not the component exercised
IdleSign ==
    [path |-> <<>>, api |-> "public", method |-> "GET", params |-> EmptyObject,
     body |-> Undefined, credentials |-> EmptyObject, clock |-> 0]

Sign ==
    /\ sgOut = Pending
    /\ sgOut' = sign(sgIn.path, sgIn.api, sgIn.method, sgIn.params, Undefined,
                     sgIn.body, sgIn.credentials, sgIn.clock)
    /\ UNCHANGED sgIn
    /\ UNCHANGED <<errVars, ordVars, trdVars, opVars>>

\* ------------------------------------------------------------------------
\* The REST API of the exchange: describe ().api

\* Each endpoint path is a sequence of segments.
Api ==
    [public |->
        [GET |-> {<<"currencies">>, <<"products">>, <<"products", "{id}", "book">>,
                  <<"products", "{id}", "candles">>, <<"products", "{id}", "stats">>,
                  <<"products", "{id}", "ticker">>, <<"products", "{id}", "trades">>,
                  <<"time">>},
         POST |-> {},
         DELETE |-> {}],
     private |->
        [GET |-> {<<"accounts">>, <<"accounts", "{id}">>,
                  <<"accounts", "{id}", "holds">>, <<"accounts", "{id}", "ledger">>,
                  <<"accounts", "{id}", "transfers">>, <<"coinbase-accounts">>,
                  <<"fills">>, <<"funding">>, <<"orders">>, <<"orders", "{id}">>,
                  <<"payment-methods">>, <<"position">>, <<"reports", "{id}">>,
                  <<"users", "self", "trailing-volume">>},
         POST |-> {<<"deposits", "coinbase-account">>, <<"deposits", "payment-method">>,
                   <<"funding", "repay">>, <<"orders">>, <<"position", "close">>,
                   <<"profiles", "margin-transfer">>, <<"reports">>,
                   <<"withdrawals", "coinbase">>, <<"withdrawals", "crypto">>,
                   <<"withdrawals", "payment-method">>},
         DELETE |-> {<<"orders">>, <<"orders", "{id}">>}]]

\* The words of a path segment, as the method name of an endpoint spells
\* them: a segment is split at every character that is not alphanumeric.
SegmentWords(seg) ==
    CASE seg = "{id}" -> <<"id">>
      [] seg = "coinbase-account" -> <<"coinbase", "account">>
      [] seg = "coinbase-accounts" -> <<"coinbase", "accounts">>
      [] seg = "payment-method" -> <<"payment", "method">>
      [] seg = "payment-methods" -> <<"payment", "methods">>
      [] seg = "trailing-volume" -> <<"trailing", "volume">>
      [] seg = "margin-transfer" -> <<"margin", "transfer">>
      [] OTHER -> <<seg>>

RECURSIVE PathWords(_)
PathWords(path) ==
    IF path = <<>> THEN <<>>
    ELSE SegmentWords(Head(path)) \o PathWords(Tail(path))

\* a method name such as privatePostDepositsPaymentMethod, as its parts
MethodName(api, method, words) == [api |-> api, method |-> method, words |-> words]

\* the endpoints a method name stands for (none: this[name] is undefined)
Endpoints(name) ==
    {path \in Api[name.api][name.method] : PathWords(path) = name.words}

\* ------------------------------------------------------------------------
\* Operation layer

\* the market cache: canonical symbol -> exchange-native id
markets == [symbol \in {"BTC/USD"} |-> "BTC-USD"]

\* timeframes['1m']
timeframes == [tf \in {"1m"} |-> "60"]

\* the symbols callers pass: a listed one and one the exchange does not list
SymbolArgs == {"BTC/USD", "DOGE/USD"}

\* the keys callers pass in the extra parameters, and their values
CallerKeys == {"id", "product_id", "status", "currency", "crypto_address",
               "payment_method_id", "coinbase_account_id", "limit"}

CallerValues == {"x"}

CallerParams == ObjectsOver(CallerKeys, CallerValues, MaxParams)

\* market (symbol) / marketId (symbol): the market is listed
Listed(symbol) == symbol \in DOMAIN markets

NoSuchMarket == Raise("ExchangeError", "symbol", <<>>)

NotSupported == Raise("NotSupported", "params", <<>>)

NotAFunction == Untyped("TypeError")

\* nothing thrown or returned yet
Running == Pending

Threw(error) == [threw |-> error, result |-> Undefined]

Returned(result) == [threw |-> NoError, result |-> Some(result)]

\* the arguments and locals of an operation: `request` is the object of
\* required parameters the operation builds, `method` the API method it
\* selects, `params` the caller's extra parameters
Call(op, symbol, address, request, params, method) ==
    [op |-> op, symbol |-> symbol, address |-> address, request |-> request,
     params |-> params, method |-> method]

NoCall == Call("none", Undefined, Undefined, EmptyObject, EmptyObject, Undefined)

\* The operation fails before it calls an API method.
Fail(error) ==
    /\ pc' = "done"
    /\ outcome' = Threw(error)
    /\ sent' = Undefined
    /\ UNCHANGED <<clock, transportCalls, nonceDraws, received, response>>

\* this[name] (params): the generated API method calls
\* request (path, api, method, params), which signs the request and hands
\* it to the transport.
Invoke(name, params) ==
    IF Endpoints(name) = {}
    THEN Fail(NotAFunction)
    ELSE LET path == CHOOSE p \in Endpoints(name) : TRUE
             d == sign(path, name.api, name.method, params, Undefined, Undefined,
                       credentials, clock)
         IN /\ clock' = clock + d.nonces
            /\ nonceDraws' = nonceDraws + d.nonces
            /\ UNCHANGED <<received, response>>
            /\ IF d.threw # NoError
               THEN /\ pc' = "done"
                    /\ outcome' = Threw(d.threw)
                    /\ sent' = Undefined
                    /\ UNCHANGED transportCalls
               ELSE /\ pc' = "awaiting"
                    /\ outcome' = Running
                    /\ sent' = Some([path |-> path, api |-> name.api,
                                     params |-> params, descriptor |-> d])
                    /\ transportCalls' = transportCalls + 1

Others == UNCHANGED <<errVars, ordVars, trdVars, sgnVars, credentials>>

\* no operation is running (and the nonce source is still followed)
CanCall == pc = "idle" /\ clock < MaxClock

FetchBalance ==
    \E params \in CallerParams :
        LET method == MethodName("private", "GET", <<"accounts">>)
        IN /\ CanCall
           /\ call' = Call("fetchBalance", Undefined, Undefined, EmptyObject,
                           params, Some(method))
           /\ Invoke(method, EmptyObject)
           /\ Others

FetchOrderBook ==
    \E symbol \in SymbolArgs, params \in CallerParams :
        LET method == MethodName("public", "GET", <<"products", "id", "book">>)
            request == IF Listed(symbol)
                       THEN [id |-> markets[symbol], level |-> "2"]
                       ELSE EmptyObject
        IN /\ CanCall
           /\ call' = Call("fetchOrderBook", Some(symbol), Undefined, request,
                           params, Some(method))
           /\ IF ~Listed(symbol) THEN Fail(NoSuchMarket)
              ELSE Invoke(method, extend(request, params))
           /\ Others

FetchTicker ==
    \E symbol \in SymbolArgs, params \in CallerParams :
        LET method == MethodName("public", "GET", <<"products", "id", "ticker">>)
            request == IF Listed(symbol) THEN [id |-> markets[symbol]]
                       ELSE EmptyObject
        IN /\ CanCall
           /\ call' = Call("fetchTicker", Some(symbol), Undefined, request,
                           params, Some(method))
           /\ IF ~Listed(symbol) THEN Fail(NoSuchMarket)
              ELSE Invoke(method, extend(request, params))
           /\ Others

FetchMyTrades ==
    \E symbol \in {Undefined} \cup {Some(y) : y \in SymbolArgs},
       limit \in {Undefined, Some("10")}, params \in CallerParams :
        LET method == MethodName("private", "GET", <<"fills">>)
            known == symbol.def => Listed(symbol.val)
            request ==
                (IF symbol.def /\ known
                 THEN [product_id |-> markets[symbol.val]] ELSE EmptyObject)
                @@ (IF limit.def THEN [limit |-> limit.val] ELSE EmptyObject)
        IN /\ CanCall
           /\ call' = Call("fetchMyTrades", symbol, Undefined, request, params,
                           Some(method))
           /\ IF ~known THEN Fail(NoSuchMarket)
              ELSE Invoke(method, extend(request, params))
           /\ Others

FetchTrades ==
    \E symbol \in SymbolArgs, params \in CallerParams :
        LET method == MethodName("public", "GET", <<"products", "id", "trades">>)
            request == IF Listed(symbol) THEN [id |-> markets[symbol]]
                       ELSE EmptyObject
        IN /\ CanCall
           /\ call' = Call("fetchTrades", Some(symbol), Undefined, request,
                           params, Some(method))
           /\ IF ~Listed(symbol) THEN Fail(NoSuchMarket)
              ELSE Invoke(method, extend(request, params))
           /\ Others

FetchOHLCV ==
    \E symbol \in SymbolArgs, since \in {Undefined, Some("t0")},
       params \in CallerParams :
        LET method == MethodName("public", "GET", <<"products", "id", "candles">>)
            request ==
                IF ~Listed(symbol) THEN EmptyObject
                ELSE [id |-> markets[symbol], granularity |-> timeframes["1m"]]
                        @@ (IF since.def
                            THEN [start |-> since.val, end |-> "t1"]
                            ELSE EmptyObject)
        IN /\ CanCall
           /\ call' = Call("fetchOHLCV", Some(symbol), Undefined, request,
                           params, Some(method))
           /\ IF ~Listed(symbol) THEN Fail(NoSuchMarket)
              ELSE Invoke(method, extend(request, params))
           /\ Others

FetchOrder ==
    \E id \in {"o1"}, params \in CallerParams :
        LET method == MethodName("private", "GET", <<"orders", "id">>)
            request == [id |-> id]
        IN /\ CanCall
           /\ call' = Call("fetchOrder", Undefined, Undefined, request, params,
                           Some(method))
           /\ Invoke(method, extend(request, params))
           /\ Others

FetchOrders ==
    \E symbol \in {Undefined} \cup {Some(y) : y \in SymbolArgs},
       params \in CallerParams :
        LET method == MethodName("private", "GET", <<"orders">>)
            known == symbol.def => Listed(symbol.val)
            request ==
                [status |-> "all"]
                @@ (IF symbol.def /\ known
                    THEN [product_id |-> markets[symbol.val]] ELSE EmptyObject)
        IN /\ CanCall
           /\ call' = Call("fetchOrders", symbol, Undefined, request, params,
                           Some(method))
           /\ IF ~known THEN Fail(NoSuchMarket)
              ELSE Invoke(method, extend(request, params))
           /\ Others

CreateOrder ==
    \E market \in SymbolArgs, type \in {"limit", "market"}, side \in {"buy"},
       params \in CallerParams :
        LET method == MethodName("private", "POST", <<"orders">>)
            order ==
                IF ~Listed(market) THEN EmptyObject
                ELSE [product_id |-> markets[market], side |-> side,
                      size |-> "1", type |-> type]
                        @@ (IF type = "limit" THEN [price |-> "100"]
                            ELSE EmptyObject)
        IN /\ CanCall
           /\ call' = Call("createOrder", Some(market), Undefined, order, params,
                           Some(method))
           /\ IF ~Listed(market) THEN Fail(NoSuchMarket)
              ELSE Invoke(method, extend(order, params))
           /\ Others

CancelOrder ==
    \E id \in {"o1"}, params \in CallerParams :
        LET method == MethodName("private", "DELETE", <<"orders", "id">>)
            request == [id |-> id]
        IN /\ CanCall
           /\ call' = Call("cancelOrder", Undefined, Undefined, request, params,
                           Some(method))
           /\ Invoke(method, request)
           /\ Others

Deposit ==
    \E currency \in {"BTC"}, address \in {"addr"}, params \in CallerParams :
        LET request == [currency |-> currency, amount |-> "1"]
            method ==
                IF "payment_method_id" \in DOMAIN params
                THEN Some(MethodName("private", "POST",
                                     <<"deposits", "payment", "method">>))
                ELSE IF "coinbase_account_id" \in DOMAIN params
                THEN Some(MethodName("private", "POST",
                                     <<"deposits", "coinbase", "account">>))
                ELSE Undefined
        IN /\ CanCall
           /\ call' = Call("deposit", Undefined, Some(address), request, params,
                           method)
           /\ IF ~method.def THEN Fail(NotSupported)
              ELSE Invoke(method.val, extend(request, params))
           /\ Others

Withdraw ==
    \E currency \in {"BTC"}, address \in {"addr"}, params \in CallerParams :
        LET variant == IF "payment_method_id" \in DOMAIN params
                       THEN <<"payment", "method">>
                       ELSE IF "coinbase_account_id" \in DOMAIN params
                       THEN <<"coinbase", "account">>
                       ELSE <<"crypto">>
            method == MethodName("private", "POST", <<"withdrawals">> \o variant)
            request == [currency |-> currency, amount |-> "1"]
                          @@ (IF variant = <<"crypto">>
                              THEN [crypto_address |-> address]
                              ELSE EmptyObject)
        IN /\ CanCall
           /\ call' = Call("withdraw", Undefined, Some(address), request, params,
                           Some(method))
           /\ Invoke(method, extend(request, params))
           /\ Others

\* ------------------------------------------------------------------------
\* The transport's answer and the rest of the operation

\* the bodies of status-400 answers followed in the operation layer
OpBodies ==
    {[first |-> "{", json |-> "object", message |-> [kind |-> "string", str |-> m]] :
        m \in {PriceTooSmall, InsufficientFundsMsg, InvalidApiKeyMsg, <<"other">>}}
        \cup {[first |-> "{", json |-> "object",
               message |-> [kind |-> "absent", str |-> <<>>]],
              [first |-> "<", json |-> "invalid",
               message |-> [kind |-> "absent", str |-> <<>>]]}

\* the parsed bodies of successful answers: a JSON object (an order, a
\* receipt, an error report) or a JSON array, which is what the endpoints
\* of the API answer with
JsonObject(members) == [json |-> "object", obj |-> members]

JsonArray == [json |-> "array", obj |-> EmptyObject]

OpResponses ==
    {JsonObject(o @@ m) :
        o \in {EmptyObject, [id |-> "o1"],
               [id |-> "o1", status |-> "done", size |-> 2, filled_size |-> 1]},
        m \in {EmptyObject, [message |-> "text"]}}
        \cup {JsonArray}

\* the raw text of a parsed body, as handleErrors sees it
BodyOf(resp) ==
    [first |-> IF resp.json = "object" THEN "{" ELSE "[",
     json |-> resp.json,
     message |-> IF "message" \in DOMAIN resp.obj
                 THEN [kind |-> "string", str |-> <<"other">>]
                 ELSE [kind |-> "absent", str |-> <<>>]]

\* the transport's own failures: no answer at all, or a status outside
\* 200..299 that handleErrors did not classify
NetworkError == Raise("NetworkError", "transport", <<>>)

HttpStatusError == Raise("ExchangeNotAvailable", "status", <<>>)

\* 'message' in response
HasMessage(resp) == "message" \in DOMAIN resp.obj

\* what request hands back to the operation: the error it threw and the
\* value it returned
requestIgnoresMessage(resp) == [threw |-> NoError, value |-> Some(resp)]

request(resp) ==
    IF HasMessage(resp)
    THEN [threw |-> Raise("ExchangeError", "response", <<>>), value |-> Undefined]
    ELSE [threw |-> NoError, value |-> Some(resp)]

\* !response
Falsy(resp) == resp.json \notin {"object", "array"}

\* what each operation makes of the response request returned
Normalize(op, resp) ==
    CASE op = "fetchOrder" ->
            Returned([kind |-> "Order", record |-> parseOrder(resp.obj)])
      [] op = "createOrder" ->
            Returned([kind |-> "Receipt", info |-> resp, id |-> Member(resp.obj, "id")])
      [] op \in {"deposit", "withdraw"} ->
            IF Falsy(resp) THEN Threw(Raise("ExchangeError", "response", <<>>))
            ELSE Returned([kind |-> "Receipt", info |-> resp,
                           id |-> Member(resp.obj, "id")])
      [] op = "cancelOrder" -> Returned([kind |-> "Raw", info |-> resp])
      [] op = "fetchBalance" -> Returned([kind |-> "Balance", info |-> resp])
      [] op = "fetchOrderBook" -> Returned([kind |-> "OrderBook", info |-> resp])
      [] op = "fetchTicker" -> Returned([kind |-> "Ticker", info |-> resp])
      [] op \in {"fetchMyTrades", "fetchTrades"} ->
            Returned([kind |-> "Trades", info |-> resp])
      [] op = "fetchOHLCV" -> Returned([kind |-> "Candles", info |-> resp])
      [] op = "fetchOrders" -> Returned([kind |-> "Orders", info |-> resp])

ResumeSwallows(op, awaited) ==
    IF awaited.threw # NoError THEN Returned([kind |-> "Raw", info |-> Undefined])
    ELSE Normalize(op, awaited.value.val)

\* the rest of an operation after `await this[method] (...)`: a failure of
\* the awaited call ends the operation, a response is normalized
Resume(op, awaited) ==
    IF awaited.threw # NoError THEN Threw(awaited.threw)
    ELSE Normalize(op, awaited.value.val)

\* The transport gives no answer (timeout, connection lost).
TransportFails ==
    /\ pc = "awaiting"
    /\ received' = Some([kind |-> "failure"])
    /\ response' = Undefined
    /\ outcome' = Resume(call.op, [threw |-> NetworkError, value |-> Undefined])
    /\ pc' = "done"
    /\ UNCHANGED <<credentials, clock, call, sent, transportCalls, nonceDraws>>
    /\ UNCHANGED <<errVars, ordVars, trdVars, sgnVars>>

\* The exchange answers with a status outside 200..299: handleErrors
\* classifies a 400, the transport raises on the rest.
HttpError ==
    \E code \in {400, 404, 500}, body \in OpBodies :
        LET error == handleErrors(code, body)
            awaited == [threw |-> IF error # NoError THEN error ELSE HttpStatusError,
                        value |-> Undefined]
        IN /\ pc = "awaiting"
           /\ code # 400 => body.first = "<"
           /\ received' = Some([kind |-> "error", code |-> code, body |-> body])
           /\ response' = Undefined
           /\ outcome' = Resume(call.op, awaited)
           /\ pc' = "done"
           /\ UNCHANGED <<credentials, clock, call, sent, transportCalls, nonceDraws>>
           /\ UNCHANGED <<errVars, ordVars, trdVars, sgnVars>>

\* The exchange answers with a status in 200..299 and a JSON body: the
\* transport resolves, request checks the response, the operation goes on.
HttpSuccess ==
    \E code \in {200, 201}, resp \in OpResponses :
        LET error == handleErrors(code, BodyOf(resp))
            awaited == IF error # NoError
                       THEN [threw |-> error, value |-> Undefined]
                       ELSE request(resp)
        IN /\ pc = "awaiting"
           /\ received' = Some([kind |-> "response", code |-> code, resp |-> resp])
           /\ response' = awaited.value
           /\ outcome' = Resume(call.op, awaited)
           /\ pc' = "done"
           /\ UNCHANGED <<credentials, clock, call, sent, transportCalls, nonceDraws>>
           /\ UNCHANGED <<errVars, ordVars, trdVars, sgnVars>>

\* The operation has returned or thrown to its caller, who may call again.
Return ==
    /\ pc = "done"
    /\ pc' = "idle"
    /\ call' = NoCall
    /\ sent' = Undefined
    /\ received' = Undefined
    /\ response' = Undefined
    /\ outcome' = Running
    /\ transportCalls' = 0
    /\ nonceDraws' = 0
    /\ UNCHANGED <<credentials, clock>>
    /\ UNCHANGED <<errVars, ordVars, trdVars, sgnVars>>

\* ------------------------------------------------------------------------
\* Normalizer: parseTrade (trade, market)

\* the ISO 8601 texts a trade payload carries in time and created_at
Iso8601Time == "1970-01-01T00:00:01Z"
Iso8601CreatedAt == "1970-01-01T00:00:02Z"

\* parse8601 (text): the milliseconds since the epoch
parse8601(text) ==
    IF text = Iso8601Time THEN 1000
    ELSE IF text = Iso8601CreatedAt THEN 2000
    ELSE 0

\* iso8601 (timestamp): the text of the instant, with its milliseconds
iso8601(timestamp) ==
    IF timestamp = 1000 THEN "1970-01-01T00:00:01.000Z"
    ELSE IF timestamp = 2000 THEN "1970-01-01T00:00:02.000Z"
    ELSE "1970-01-01T00:00:00.000Z"

\* the market index: exchange-native id -> market
markets_by_id ==
    [id \in {markets[symbol] : symbol \in DOMAIN markets} |->
        [id |-> id,
         symbol |-> CHOOSE symbol \in DOMAIN markets : markets[symbol] = id,
         quote |-> "USD"]]

parseTradeKeepsSide(trade, market) ==
    LET timestamp == IF "time" \in DOMAIN trade
                     THEN Some(parse8601(trade["time"]))
                     ELSE IF "created_at" \in DOMAIN trade
                     THEN Some(parse8601(trade["created_at"]))
                     ELSE Undefined
        datetime == IF timestamp.def THEN Some(iso8601(timestamp.val))
                    ELSE Undefined
        side == IF Member(trade, "side") = Some("buy") THEN "buy" ELSE "sell"
        found == IF ~market.def /\ "product_id" \in DOMAIN trade
                    /\ trade["product_id"] \in DOMAIN markets_by_id
                 THEN Some(markets_by_id[trade["product_id"]])
                 ELSE market
        symbol == IF found.def THEN Some(found.val.symbol) ELSE Undefined
        fee == IF "fill_fees" \in DOMAIN trade
               THEN Some([cost |-> safeFloat(trade, "fill_fees"),
                          currency |-> IF found.def THEN Some(found.val.quote)
                                       ELSE Undefined,
                          rate |-> Undefined])
               ELSE Undefined
        type == IF "liquidity" \in DOMAIN trade
                THEN Some(IF trade["liquidity"] = "T" THEN "Taker" ELSE "Maker")
                ELSE Undefined
    IN [id |-> safeString(trade, Some("trade_id"), Undefined),
        order |-> safeString(trade, Some("order_id"), Undefined),
        info |-> trade, timestamp |-> timestamp, datetime |-> datetime,
        symbol |-> symbol, type |-> type, side |-> side,
        price |-> safeFloat(trade, "price"),
        amount |-> safeFloat(trade, "size"), fee |-> fee]

parseTrade(trade, market) ==
    LET timestamp == IF "time" \in DOMAIN trade
                     THEN Some(parse8601(trade["time"]))
                     ELSE IF "created_at" \in DOMAIN trade
                     THEN Some(parse8601(trade["created_at"]))
                     ELSE Undefined
        datetime == IF timestamp.def THEN Some(iso8601(timestamp.val))
                    ELSE Undefined
        side == IF Member(trade, "side") = Some("buy") THEN "sell" ELSE "buy"
        \* if (!market): looked up by product_id in markets_by_id
        found == IF ~market.def /\ "product_id" \in DOMAIN trade
                    /\ trade["product_id"] \in DOMAIN markets_by_id
                 THEN Some(markets_by_id[trade["product_id"]])
                 ELSE market
        symbol == IF found.def THEN Some(found.val.symbol) ELSE Undefined
        fee == IF "fill_fees" \in DOMAIN trade
               THEN Some([cost |-> safeFloat(trade, "fill_fees"),
                          currency |-> IF found.def THEN Some(found.val.quote)
                                       ELSE Undefined,
                          rate |-> Undefined])
               ELSE Undefined
        type == IF "liquidity" \in DOMAIN trade
                THEN Some(IF trade["liquidity"] = "T" THEN "Taker" ELSE "Maker")
                ELSE Undefined
    IN [id |-> safeString(trade, Some("trade_id"), Undefined),
        order |-> safeString(trade, Some("order_id"), Undefined),
        info |-> trade, timestamp |-> timestamp, datetime |-> datetime,
        symbol |-> symbol, type |-> type, side |-> side,
        price |-> safeFloat(trade, "price"),
        amount |-> safeFloat(trade, "size"), fee |-> fee]

\* no member, or the member key with one of the values V
Optional(key, V) == {EmptyObject} \cup {[k \in {key} |-> v] : v \in V}

\* the sides a payload may report: the two of the exchange, and texts that
\* are neither
UpstreamSides == {"buy", "sell", "BUY", "unknown"}

TradePayloads ==
    {s @@ t @@ c @@ p @@ f @@ l @@ i @@ o @@ [price |-> 1, size |-> 1] :
        s \in Optional("side", UpstreamSides),
        t \in Optional("time", {Iso8601Time}),
        c \in Optional("created_at", {Iso8601CreatedAt}),
        p \in Optional("product_id", {"BTC-USD", "DOGE-USD"}),
        f \in Optional("fill_fees", 0..MaxQty),
        l \in Optional("liquidity", {"T", "M"}),
        i \in Optional("trade_id", {"74"}),
        o \in Optional("order_id", {"d50ec984"})}

\* the market argument: none, or the market of the symbol asked for
MarketArgs == {Undefined} \cup {Some(markets_by_id[id]) : id \in DOMAIN markets_by_id}

ParseTrade ==
    /\ ptResult = Pending
    /\ ptResult' = parseTrade(ptTrade, ptMarket)
    /\ UNCHANGED <<ptTrade, ptMarket, ptBack>>
    /\ UNCHANGED <<errVars, ordVars, sgnVars, opVars>>

\* the returned side fed back: the same payload, its side replaced by the
\* side of the Trade that parseTrade returned, parsed once more
ParseTradeAgain ==
    /\ ptResult # Pending
    /\ ptBack = Pending
    /\ ptBack' = parseTrade([side |-> ptResult.side] @@ ptTrade, ptMarket)
    /\ UNCHANGED <<ptTrade, ptMarket, ptResult>>
    /\ UNCHANGED <<errVars, ordVars, sgnVars, opVars>>

\* ------------------------------------------------------------------------
\* Specifications

\* the error classifier applied to every (status, body)
InitErr ==
    /\ heCode \in StatusCodes
    /\ heBody \in Bodies
    /\ heOut = Pending
    /\ poOrder = EmptyObject
    /\ poResult = Pending
    /\ ptTrade = EmptyObject
    /\ ptMarket = Undefined
    /\ ptResult = Pending
    /\ ptBack = Pending
    /\ sgIn = IdleSign
    /\ sgOut = Pending
    /\ credentials = EmptyObject
    /\ clock = 0
    /\ pc = "off"
    /\ call = NoCall
    /\ sent = Undefined
    /\ received = Undefined
    /\ response = Undefined
    /\ outcome = Running
    /\ transportCalls = 0
    /\ nonceDraws = 0

NextErr == HandleErrors

SpecErr == InitErr /\ [][NextErr]_vars

\* the order normalizer applied to every payload
InitOrd ==
    /\ poOrder \in OrderPayloads
    /\ poResult = Pending
    /\ ptTrade = EmptyObject
    /\ ptMarket = Undefined
    /\ ptResult = Pending
    /\ ptBack = Pending
    /\ heCode = 0
    /\ heBody = IdleBody
    /\ heOut = Pending
    /\ sgIn = IdleSign
    /\ sgOut = Pending
    /\ credentials = EmptyObject
    /\ clock = 0
    /\ pc = "off"
    /\ call = NoCall
    /\ sent = Undefined
    /\ received = Undefined
    /\ response = Undefined
    /\ outcome = Running
    /\ transportCalls = 0
    /\ nonceDraws = 0

NextOrd == ParseOrder

SpecOrd == InitOrd /\ [][NextOrd]_vars

\* the trade normalizer applied to every payload and market argument, and
\* then once more to the payload carrying the side it returned
InitTrd ==
    /\ ptTrade \in TradePayloads
    /\ ptMarket \in MarketArgs
    /\ ptResult = Pending
    /\ ptBack = Pending
    /\ heCode = 0
    /\ heBody = IdleBody
    /\ heOut = Pending
    /\ poOrder = EmptyObject
    /\ poResult = Pending
    /\ sgIn = IdleSign
    /\ sgOut = Pending
    /\ credentials = EmptyObject
    /\ clock = 0
    /\ pc = "off"
    /\ call = NoCall
    /\ sent = Undefined
    /\ received = Undefined
    /\ response = Undefined
    /\ outcome = Running
    /\ transportCalls = 0
    /\ nonceDraws = 0

NextTrd ==
    \/ ParseTrade
    \/ ParseTradeAgain

SpecTrd == InitTrd /\ [][NextTrd]_vars

\* the signer applied to every path, API class, method, parameter object,
\* caller-supplied body and set of credentials
InitSign ==
    /\ sgIn \in [path : SignPaths, api : {"public", "private"}, method : Methods,
                  params : SignParams, body : CallerBodies,
                  credentials : CredentialSets, clock : {1}]
    /\ sgOut = Pending
    /\ heCode = 0
    /\ heBody = IdleBody
    /\ heOut = Pending
    /\ poOrder = EmptyObject
    /\ poResult = Pending
    /\ ptTrade = EmptyObject
    /\ ptMarket = Undefined
    /\ ptResult = Pending
    /\ ptBack = Pending
    /\ credentials = EmptyObject
    /\ clock = 0
    /\ pc = "off"
    /\ call = NoCall
    /\ sent = Undefined
    /\ received = Undefined
    /\ response = Undefined
    /\ outcome = Running
    /\ transportCalls = 0
    /\ nonceDraws = 0

NextSign == Sign

SpecSign == InitSign /\ [][NextSign]_vars

\* the operations of the adapter, called one after another with any
\* arguments, any credentials set, and any answer of the transport
Init ==
    /\ credentials \in CredentialSets
    /\ clock = 1
    /\ pc = "idle"
    /\ call = NoCall
    /\ sent = Undefined
    /\ received = Undefined
    /\ response = Undefined
    /\ outcome = Running
    /\ transportCalls = 0
    /\ nonceDraws = 0
    /\ heCode = 0
    /\ heBody = IdleBody
    /\ heOut = Pending
    /\ poOrder = EmptyObject
    /\ poResult = Pending
    /\ ptTrade = EmptyObject
    /\ ptMarket = Undefined
    /\ ptResult = Pending
    /\ ptBack = Pending
    /\ sgIn = IdleSign
    /\ sgOut = Pending

Next ==
    \/ FetchBalance
    \/ FetchOrderBook
    \/ FetchTicker
    \/ FetchMyTrades
    \/ FetchTrades
    \/ FetchOHLCV
    \/ FetchOrder
    \/ FetchOrders
    \/ CreateOrder
    \/ CancelOrder
    \/ Deposit
    \/ Withdraw
    \/ TransportFails
    \/ HttpError
    \/ HttpSuccess
    \/ Return

Spec == Init /\ [][Next]_vars

\* ------------------------------------------------------------------------
\* Properties of the error classifier (checked under SpecErr)

\* needle occurs in hay as a contiguous run of words
Contains(hay, needle) ==
    \E i \in 0..Len(hay) :
        /\ i + Len(needle) <= Len(hay)
        /\ \A k \in 1..Len(needle) : hay[i + k] = needle[k]

\* the classifier has been called on a status-400 response whose body is a
\* JSON object with a string `message`
Classified400 ==
    /\ heOut # Pending
    /\ heCode = 400
    /\ heBody.first = "{"
    /\ heBody.json = "object"
    /\ heBody.message.kind = "string"

\* C1: for a status-400 response whose body is a JSON object with a string
\* message, handleErrors raises exactly the error this precedence selects:
\* contains "price too small" -> InvalidOrder; else contains "price too
\* precise" -> InvalidOrder; else equals "Insufficient funds" ->
\* InsufficientFunds; else equals "Invalid API Key" -> AuthenticationError;
\* else ExchangeError carrying the message.  Equality is exact.
C1_Precedence ==
    Classified400 =>
        LET m == heBody.message.str
        IN /\ heOut.carries = "message"
           /\ heOut.text = m
           /\ heOut.type =
                 IF Contains(m, PriceTooSmall) THEN "InvalidOrder"
                 ELSE IF Contains(m, PriceTooPrecise) THEN "InvalidOrder"
                 ELSE IF m = InsufficientFundsMsg THEN "InsufficientFunds"
                 ELSE IF m = InvalidApiKeyMsg THEN "AuthenticationError"
                 ELSE "ExchangeError"

\* a message that merely contains "Insufficient funds" was classified, and
\* came out as a generic ExchangeError
C1_Witness ==
    /\ Classified400
    /\ heBody.message.str = <<"Insufficient", "funds", "other">>
    /\ heOut.type = "ExchangeError"

\* C2: handleErrors is total: on status 400 it raises one of the taxonomy
\* errors whatever the body (ExchangeError carrying the raw body when the
\* body is not JSON), never an untyped failure; on any other status it
\* raises nothing.
C2_Total ==
    heOut # Pending =>
        IF heCode = 400
        THEN /\ heOut.type \in TaxonomyErrors
             /\ heBody.json = "invalid" =>
                    (heOut.type = "ExchangeError" /\ heOut.carries = "body")
        ELSE heOut = NoError

\* ------------------------------------------------------------------------
\* Properties of the order normalizer (checked under SpecOrd)

TableKeys == {"pending", "active", "open", "done", "canceled"}

CanonicalStatuses == {"open", "closed", "canceled"}

\* the upstream status of the payload, and the status parseOrder returned
UpstreamStatus == Member(poOrder, "status")

\* what the table of the claim makes of an upstream status
TableImage(u) ==
    IF u \in {"pending", "active", "open"} THEN "open"
    ELSE IF u = "done" THEN "closed"
    ELSE IF u = "canceled" THEN "canceled"
    ELSE u

\* pending, active, open -> open; done -> closed; canceled -> canceled;
\* every other upstream status (an absent one too) comes back unchanged
StatusMapped ==
    IF UpstreamStatus.def
    THEN poResult.status = Some(TableImage(UpstreamStatus.val))
    ELSE poResult.status = Undefined

\* C9 as stated: the mapping, and the normalized status is canonical
\* exactly when the upstream status is one of the five table keys.
C9_Original ==
    poResult # Pending =>
        /\ StatusMapped
        /\ (poResult.status.def /\ poResult.status.val \in CanonicalStatuses)
              <=> (UpstreamStatus.def /\ UpstreamStatus.val \in TableKeys)

\* C9 as amended: the mapping, and the normalized status is canonical
\* exactly when the upstream status is one of the five table keys or is
\* itself "closed" (which is no table key and passes through unchanged).
C9_StatusMapping ==
    poResult # Pending =>
        /\ StatusMapped
        /\ (poResult.status.def /\ poResult.status.val \in CanonicalStatuses)
              <=> (UpstreamStatus.def
                     /\ UpstreamStatus.val \in TableKeys \cup {"closed"})

\* an unknown upstream status was normalized and passed through
C9_Witness ==
    /\ poResult # Pending
    /\ UpstreamStatus = Some("rejected")
    /\ poResult.status = Some("rejected")

\* C10: amount is the first defined of size, funds, specified_funds;
\* remaining is amount - filled_size when both are defined and unset
\* otherwise; the payload's own `remaining` member is never read.
C10_AmountRemaining ==
    poResult # Pending =>
        LET has(k) == k \in DOMAIN poOrder
            amount == IF has("size") THEN Some(poOrder["size"])
                      ELSE IF has("funds") THEN Some(poOrder["funds"])
                      ELSE IF has("specified_funds")
                           THEN Some(poOrder["specified_funds"])
                      ELSE Undefined
        IN /\ poResult.amount = amount
           /\ poResult.remaining =
                 IF amount.def /\ has("filled_size")
                 THEN Some(amount.val - poOrder["filled_size"])
                 ELSE Undefined

\* a payload with size and funds both defined and different, and with a
\* `remaining` member that is not amount - filled, was normalized
C10_Witness ==
    /\ poResult # Pending
    /\ {"size", "funds", "filled_size", "remaining"} \subseteq DOMAIN poOrder
    /\ poOrder["size"] # poOrder["funds"]
    /\ poOrder["remaining"] # poOrder["size"] - poOrder["filled_size"]
    /\ poResult.amount = Some(poOrder["size"])
    /\ poResult.remaining = Some(poOrder["size"] - poOrder["filled_size"])

\* ------------------------------------------------------------------------
\* Properties of the signer (checked under SpecSign)

\* sign returned a descriptor for a private request
SignedPrivate ==
    /\ sgOut # Pending
    /\ sgOut.threw = NoError
    /\ sgIn.api = "private"

\* C3: the text that is signed is nonce + method + requestPath + B, where B
\* is the body of the returned descriptor (empty when it has none).
C3_SignsWhatItSends ==
    SignedPrivate =>
        LET B == IF sgOut.body.def THEN sgOut.body.val ELSE <<>>
            requestPath == Tail(sgOut.url)
        IN sgOut.headers.val.sign.signed =
              <<sgOut.headers.val.timestamp, sgOut.method>> \o requestPath \o B

\* ------------------------------------------------------------------------
\* Properties of the operation layer (checked under Spec)

\* one of the three credentials is not set
CredentialMissing == \E c \in {"apiKey", "secret", "password"} : c \notin DOMAIN credentials

\* the running operation is one of the private API
PrivateOperation ==
    call.op \in {"fetchBalance", "fetchMyTrades", "fetchOrder", "fetchOrders",
                 "createOrder", "cancelOrder", "deposit", "withdraw"}

\* the running operation has got as far as a request to an endpoint of the
\* private API: its symbol, if it has one, is listed, and the method it
\* selected is one of the API
TargetsPrivateApi ==
    /\ PrivateOperation
    /\ call.symbol.def => call.symbol.val \in DOMAIN markets
    /\ call.method.def
    /\ Endpoints(call.method.val) # {}

MergingOperations ==
    {"fetchTicker", "fetchOrderBook", "fetchTrades", "fetchOHLCV", "fetchOrder",
     "fetchOrders", "createOrder", "deposit", "withdraw"}

\* C5: in the request that is sent, every required parameter has the value
\* the operation gave it, also when the caller passed the same key.
C5_RequiredWins ==
    (call.op \in MergingOperations /\ sent.def) =>
        \A k \in DOMAIN call.request : sent.val.params[k] = call.request[k]

\* the endpoint of each variant of deposit and withdraw
VariantEndpoint(op, variant) ==
    CASE op = "deposit" /\ variant = "payment-method" -> <<"deposits", "payment-method">>
      [] op = "deposit" /\ variant = "coinbase-account" -> <<"deposits", "coinbase-account">>
      [] op = "withdraw" /\ variant = "payment-method" -> <<"withdrawals", "payment-method">>
      [] op = "withdraw" /\ variant = "coinbase-account" -> <<"withdrawals", "coinbase">>
      [] op = "withdraw" /\ variant = "crypto-address" -> <<"withdrawals", "crypto">>

\* the running operation goes to exactly the endpoint of the variant
Selects(variant) ==
    /\ call.method.def
    /\ Endpoints(call.method.val) = {VariantEndpoint(call.op, variant)}
    /\ sent.def => sent.val.path = VariantEndpoint(call.op, variant)

\* C6: deposit and withdraw select the payment-method variant when
\* payment_method_id is passed, else the coinbase-account variant when
\* coinbase_account_id is passed; with neither, deposit fails with
\* NotSupported without invoking the transport and withdraw uses the
\* crypto-address variant with crypto_address set to the address argument.
C6_VariantSelection ==
    (pc # "idle" /\ call.op \in {"deposit", "withdraw"}) =>
        IF "payment_method_id" \in DOMAIN call.params
        THEN Selects("payment-method")
        ELSE IF "coinbase_account_id" \in DOMAIN call.params
        THEN Selects("coinbase-account")
        ELSE IF call.op = "deposit"
        THEN /\ pc = "done"
             /\ outcome.threw.type = "NotSupported"
             /\ transportCalls = 0
        ELSE /\ Selects("crypto-address")
             /\ sent.def => sent.val.params["crypto_address"] = call.address.val

\* the transport resolved with a parsed response
Resolved ==
    /\ pc = "done"
    /\ received.def
    /\ received.val.kind = "response"

\* C7: when the transport resolves with a response that has a `message`
\* key, request raises ExchangeError whatever the status, and the response
\* reaches neither the operation nor the caller; a response without the key
\* is returned unchanged.
C7_MessageKey ==
    Resolved =>
        IF "message" \in DOMAIN received.val.resp.obj
        THEN /\ outcome.threw.type = "ExchangeError"
             /\ outcome.result = Undefined
             /\ response = Undefined
        ELSE response = Some(received.val.resp)

\* a 201 answer with a `message` key ended in ExchangeError
C7_Witness ==
    /\ Resolved
    /\ received.val.code = 201
    /\ "message" \in DOMAIN received.val.resp.obj
    /\ "id" \in DOMAIN received.val.resp.obj
    /\ outcome.threw.type = "ExchangeError"

\* the failure, if any, of the transport, of the error classifier or of the
\* message-key check on what the transport delivered
DeliveredFailure ==
    LET r == received.val
    IN CASE r.kind = "failure" -> NetworkError
         [] r.kind = "error" /\ r.code = 400 -> handleErrors(r.code, r.body)
         [] r.kind = "error" /\ r.code # 400 -> HttpStatusError
         [] r.kind = "response" /\ "message" \in DOMAIN r.resp.obj ->
                Raise("ExchangeError", "response", <<>>)
         [] OTHER -> NoError

\* C8: one call of an operation invokes the transport at most once, and a
\* failure of the transport, of the error classifier or of the message-key
\* check ends the operation with that failure and without a record.
C8_NoRetryNoSwallow ==
    /\ transportCalls <= 1
    /\ (pc = "done" /\ received.def /\ DeliveredFailure # NoError) =>
          (outcome.threw = DeliveredFailure /\ outcome.result = Undefined)
    /\ (pc = "done" /\ outcome.threw = NoError) =>
          (transportCalls = 1 /\ received.def /\ DeliveredFailure = NoError)

\* fetchOrder got a status-400 "Insufficient funds" answer and ended with
\* InsufficientFunds after one invocation of the transport
C8_Witness ==
    /\ pc = "done"
    /\ call.op = "fetchOrder"
    /\ received.def
    /\ received.val.kind = "error"
    /\ transportCalls = 1
    /\ outcome.threw.type = "InsufficientFunds"
    /\ outcome.result = Undefined

\* ------------------------------------------------------------------------
\* Properties of the trade normalizer (checked under SpecTrd)

\* trade['side'] of the payload passed in first
UpstreamSide == Member(ptTrade, "side")

\* the sides the exchange reports
ExchangeSides == {Some("buy"), Some("sell")}

\* one call flips a side of the exchange and never returns the side it read
FlippedOnce ==
    ptResult # Pending =>
        /\ UpstreamSide = Some("buy") => ptResult.side = "sell"
        /\ UpstreamSide = Some("sell") => ptResult.side = "buy"
        /\ Some(ptResult.side) # UpstreamSide
        /\ ptResult.info = ptTrade

\* C11 as stated: parseTrade turns an upstream "buy" into "sell" and an
\* upstream "sell" into "buy", the side it returns never equals the upstream
\* side, and the returned side fed back through parseTrade gives the original
\* upstream side, whatever the payload.
C11_Original ==
    /\ FlippedOnce
    /\ ptBack # Pending => Some(ptBack.side) = UpstreamSide

\* C11 amended: parseTrade turns an upstream "buy" into "sell" and an upstream
\* "sell" into "buy", and the side it returns never equals the upstream side;
\* the returned side fed back through parseTrade gives the original upstream
\* side when that side is "buy" or "sell".  Any other upstream side, and a
\* payload without a side, yields "buy", and feeding that back yields "sell".
C11_SideFlip ==
    /\ FlippedOnce
    /\ ptBack # Pending =>
        IF UpstreamSide \in ExchangeSides
        THEN Some(ptBack.side) = UpstreamSide
        ELSE ptResult.side = "buy" /\ ptBack.side = "sell"

\* a payload with side "sell" was parsed to "buy", and "buy" fed back gave
\* "sell"
C11_Witness ==
    /\ UpstreamSide = Some("sell")
    /\ ptResult # Pending
    /\ ptResult.side = "buy"
    /\ ptBack # Pending
    /\ ptBack.side = "sell"

\* ------------------------------------------------------------------------
\* Placement of the parameters by the signer (checked under SpecSign)

\* sign returned a descriptor
Signed ==
    /\ sgOut # Pending
    /\ sgOut.threw = NoError

\* the (key, value) pairs written in a text as key mid value
Pairs(text, mid) ==
    {<<text[i], text[i + 2]>> : i \in {j \in 1..(Len(text) - 2) : text[j + 1] = mid}}

\* the query string of a URL: what follows its "?" (nothing without one)
QueryString(url) ==
    IF \E i \in 1..Len(url) : url[i] = "?"
    THEN SubSeq(url, 1 + (CHOOSE i \in 1..Len(url) : url[i] = "?"), Len(url))
    ELSE <<>>

\* the body of the returned descriptor as text
ReturnedBody == IF sgOut.body.def THEN sgOut.body.val ELSE <<>>

\* the positions of the path whose placeholder names a parameter passed in
Substituted ==
    {i \in 1..Len(sgIn.path) :
        /\ sgIn.path[i] \in DOMAIN PlaceholderKey
        /\ PlaceholderKey[sgIn.path[i]] \in DOMAIN sgIn.params}

\* the parameters no placeholder of the path names, as (key, value) pairs
Remaining ==
    {<<k, sgIn.params[k]>> :
        k \in DOMAIN sgIn.params \ {PlaceholderKey[sgIn.path[i]] : i \in Substituted}}

\* a parameter named by a placeholder is in the path (segment i of the path is
\* token 2i + 1 of the URL) and in neither the query string nor the body
InPathOnly ==
    \A i \in Substituted :
        LET k == PlaceholderKey[sgIn.path[i]]
        IN /\ sgOut.url[2 * i + 1] = sgIn.params[k]
           /\ \A pair \in Pairs(QueryString(sgOut.url), "=") \cup Pairs(ReturnedBody, ":") :
                 pair[1] # k

\* GET: the remaining parameters are the query string
InQueryOnly ==
    /\ Pairs(QueryString(sgOut.url), "=") = Remaining
    /\ Pairs(ReturnedBody, ":") = {}

\* non-GET: the remaining parameters are the JSON body, the URL has no query
InBodyOnly ==
    /\ Pairs(ReturnedBody, ":") = Remaining
    /\ QueryString(sgOut.url) = <<>>
    /\ \A i \in 1..Len(sgOut.url) : sgOut.url[i] # "?"

\* C12: in the descriptor sign returns every parameter is in exactly one
\* place: a parameter named by a {param} placeholder of the path is in the
\* path and in neither the query string nor the body; for GET every other
\* parameter is in the query string of the URL and the body is empty; for any
\* other method every other parameter is in the JSON body and none in the URL.
C12_EveryParameterPlaced ==
    Signed =>
        /\ InPathOnly
        /\ IF sgIn.method = "GET"
           THEN InQueryOnly /\ ReturnedBody = <<>>
           ELSE InBodyOnly

====
